---- MODULE Spec2Model ----
(***************************************************************************)
(* A model of app.py of vast-converter: the clickthrough resolver          *)
(* (extract_click_url, resolve_final_url, get_final_destination) and the   *)
(* request handler index() with the render step that runs the encoder.     *)
(*                                                                         *)
(* Strings are sequences of tokens.  A token is one character, except for  *)
(* a few atoms that stand for a fixed run of characters holding no         *)
(* character the other tokens can combine with: "http://", its             *)
(* percent-encoded form "http%3A%2F%2F", and the parameter names.          *)
(***************************************************************************)
EXTENDS Integers, Sequences, FiniteSets, TLC

\* Longest tail (in tokens) of the URLs the resolver specification enumerates.
MaxTail == 3

\* Number of requests the handler serves concurrently.
NumRequests == 2

-----------------------------------------------------------------------------
(* urllib.parse as used by the resolver *)

\* The hex digits that occur in the model's alphabet.
HexDigits == {"2", "5", "F"}

\* The character a %XY escape decodes to (UTF-8, errors='replace').
HexChar(a, b) ==
  CASE a = "2" /\ b = "2" -> "\""
    [] a = "2" /\ b = "5" -> "%"
    [] a = "2" /\ b = "F" -> "/"
    [] a = "5" /\ b = "2" -> "R"
    [] a = "5" /\ b = "5" -> "U"
    [] a = "5" /\ b = "F" -> "_"
    [] OTHER -> "U+FFFD"

\* urllib.parse.unquote: one pass of percent-decoding; a '%' that is not
\* followed by two hex digits is kept.
RECURSIVE unquote(_)
unquote(s) ==
  IF s = <<>> THEN <<>>
  ELSE IF s[1] = "%" /\ Len(s) >= 3 /\ s[2] \in HexDigits /\ s[3] \in HexDigits
    THEN <<HexChar(s[2], s[3])>> \o unquote(SubSeq(s, 4, Len(s)))
  ELSE IF s[1] = "http%3A%2F%2F"
    THEN <<"http://">> \o unquote(Tail(s))
  ELSE <<s[1]>> \o unquote(Tail(s))

\* urllib.parse.quote(s, safe=''): the percent-encoding of s.
RECURSIVE quote(_)
quote(s) ==
  IF s = <<>> THEN <<>>
  ELSE (CASE s[1] = "%" -> <<"%", "2", "5">>
          [] s[1] = "/" -> <<"%", "2", "F">>
          [] s[1] = "\"" -> <<"%", "2", "2">>
          [] s[1] = "http://" -> <<"http%3A%2F%2F">>
          [] OTHER -> <<s[1]>>) \o quote(Tail(s))

\* The index of the first t in s at or after i, 0 when there is none.
RECURSIVE IndexOf(_, _, _)
IndexOf(s, t, i) ==
  IF i > Len(s) THEN 0
  ELSE IF s[i] = t THEN i
  ELSE IndexOf(s, t, i + 1)

\* str.split(sep)
RECURSIVE split(_, _)
split(s, sep) ==
  LET i == IndexOf(s, sep, 1)
  IN IF i = 0 THEN <<s>>
     ELSE <<SubSeq(s, 1, i - 1)>> \o split(SubSeq(s, i + 1, Len(s)), sep)

\* str.replace('+', ' ')
PlusToSpace(s) == [i \in 1..Len(s) |-> IF s[i] = "+" THEN " " ELSE s[i]]

\* urlparse(url).query: what follows the first '?', up to the fragment.
urlparse_query(url) ==
  LET h == IndexOf(url, "#", 1)
      nofrag == IF h = 0 THEN url ELSE SubSeq(url, 1, h - 1)
      q == IndexOf(nofrag, "?", 1)
  IN IF q = 0 THEN <<>> ELSE SubSeq(nofrag, q + 1, Len(nofrag))

\* urlparse raises ValueError on a netloc with an unbalanced bracket.
urlparse_raises(url) ==
  /\ url # <<>>
  /\ url[1] \in {"http://", "https://"}
  /\ LET rest == Tail(url)
         ends == {i \in 1..Len(rest) : rest[i] \in {"/", "?", "#"}}
         stop == IF ends = {} THEN Len(rest) + 1
                 ELSE CHOOSE i \in ends : \A j \in ends : i <= j
         netloc == SubSeq(rest, 1, stop - 1)
     IN (IndexOf(netloc, "[", 1) # 0) # (IndexOf(netloc, "]", 1) # 0)

\* urllib.parse.parse_qsl(query): the (name, value) pairs in order, both
\* decoded; fields without '=' or with an empty value are dropped.
RECURSIVE parse_qsl_fields(_)
parse_qsl_fields(fields) ==
  IF fields = <<>> THEN <<>>
  ELSE LET f == Head(fields)
           e == IndexOf(f, "=", 1)
           name == SubSeq(f, 1, e - 1)
           value == SubSeq(f, e + 1, Len(f))
       IN (IF e = 0 \/ value = <<>> THEN <<>>
           ELSE << <<unquote(PlusToSpace(name)), unquote(PlusToSpace(value))>> >>)
          \o parse_qsl_fields(Tail(fields))

parse_qsl(query) == parse_qsl_fields(split(query, "&"))

\* parse_qs(query).get(key, []): the values of key, in order.
RECURSIVE ValuesOf(_, _)
ValuesOf(pairs, key) ==
  IF pairs = <<>> THEN <<>>
  ELSE (IF Head(pairs)[1] = key THEN <<Head(pairs)[2]>> ELSE <<>>)
       \o ValuesOf(Tail(pairs), key)

parse_qs_get(query, key) == ValuesOf(parse_qsl(query), key)

-----------------------------------------------------------------------------
(* The clickthrough resolver *)

\* Python's None
None == <<"None">>

\* The keys scanned after 'click', in the order of the list in the code.
DestKeys == << <<"u">>, <<"url">>, <<"redirect_url">>, <<"destination_url">>, <<"finalUrl">> >>

RECURSIVE FirstDestKey(_, _)
FirstDestKey(query, i) ==
  IF i > Len(DestKeys) THEN None
  ELSE LET dest_url_list == parse_qs_get(query, DestKeys[i])
       IN IF dest_url_list # <<>> THEN unquote(dest_url_list[1])
          ELSE FirstDestKey(query, i + 1)

extract_click_url(clickthrough_url) ==
  IF clickthrough_url = <<>> THEN None
  ELSE IF urlparse_raises(clickthrough_url) THEN None
  ELSE LET query == urlparse_query(clickthrough_url)
           click_url_list == parse_qs_get(query, <<"click">>)
       IN IF click_url_list # <<>> THEN unquote(click_url_list[1])
          ELSE FirstDestKey(query, 1)

\* url.startswith('http://') or url.startswith('https://')
IsHttp(url) == url # <<>> /\ url[1] \in {"http://", "https://"}

\* What session.get(url, allow_redirects=True, timeout=20) can do: return a
\* response whose url is the requested one or a landing page, raise a
\* requests.RequestException, or raise an exception of another class.
Landing == <<"http://", "L">>
NetOutcomes(url) ==
  {[kind |-> "ok", url |-> url], [kind |-> "ok", url |-> Landing],
   [kind |-> "RequestException", url |-> <<>>],
   [kind |-> "OtherException", url |-> <<>>]}

\* resolve_final_url(url) when the network behaves as net: the value returned or
\* the exception that leaves the function, and the HTTP requests issued.
resolve_final_url(url, net) ==
  IF ~IsHttp(url) THEN [raised |-> FALSE, value |-> url, gets |-> 0]
  ELSE IF net.kind = "ok" THEN [raised |-> FALSE, value |-> net.url, gets |-> 1]
  ELSE IF net.kind = "RequestException" THEN [raised |-> FALSE, value |-> url, gets |-> 1]
  ELSE [raised |-> TRUE, value |-> None, gets |-> 1]

get_final_destination(clickthrough_url, net) ==
  IF clickthrough_url = <<>>
    THEN [raised |-> FALSE, value |-> clickthrough_url, gets |-> 0, intermediate |-> None]
  ELSE
    LET intermediate_url == extract_click_url(clickthrough_url)
    IN IF intermediate_url # None /\ intermediate_url # <<>>
       THEN LET r == resolve_final_url(intermediate_url, net)
            IN [raised |-> r.raised,
                value |-> IF r.raised THEN None
                          ELSE IF r.value # <<>> THEN r.value ELSE intermediate_url,
                gets |-> r.gets, intermediate |-> intermediate_url]
       ELSE LET r == resolve_final_url(clickthrough_url, net)
            IN [raised |-> r.raised,
                value |-> IF r.raised THEN None
                          ELSE IF r.value # <<>> /\ r.value # clickthrough_url
                            THEN r.value ELSE clickthrough_url,
                gets |-> r.gets, intermediate |-> None]

-----------------------------------------------------------------------------
(* The request handler index() *)

Requests == 1..NumRequests

\* The values os.urandom(4) takes, up to renaming: request r draws the value
\* named r, which no request drew before unless it drew it from r's, or a value
\* another request has drawn.
Tokens == Requests

\* str.strip() for the whitespace token " ".
RECURSIVE lstrip(_)
lstrip(s) == IF s # <<>> /\ s[1] = " " THEN lstrip(Tail(s)) ELSE s
RECURSIVE rstrip(_)
rstrip(s) ==
  IF s # <<>> /\ s[Len(s)] = " " THEN rstrip(SubSeq(s, 1, Len(s) - 1)) ELSE s
strip(s) == rstrip(lstrip(s))

\* The VAST documents the requests carry.  content is what lines 135-157 end
\* with: "none" (nothing provided), "fetch_error" (requests.get raised),
\* "bad_xml" (ET.fromstring raises ParseError) or "xml".  An absent node is
\* NoNode; the text of a node without text is the empty string.
NoNode == <<"NoNode">>
VideoUrl == <<"http://", "v">>
RawClick == <<"http://", "t", "?", "click", "=", "http%3A%2F%2F", "x">>
Mp4(text) == [type |-> "video/mp4", text |-> text]
Flv(text) == [type |-> "video/x-flv", text |-> text]
Vast(media, click) == [content |-> "xml", media |-> media, click |-> click]
NoXml(content) == [content |-> content, media |-> <<>>, click |-> NoNode]
Vasts ==
  {NoXml("none"), NoXml("fetch_error"), NoXml("bad_xml"),
   Vast(<< Mp4(VideoUrl) >>, RawClick),
   Vast(<<>>, RawClick),
   Vast(<< Flv(VideoUrl) >>, RawClick),
   Vast(<< Mp4(<<>>) >>, RawClick),
   Vast(<< Mp4(<<" ">>) >>, RawClick),
   Vast(<< Mp4(VideoUrl) >>, NoNode),
   Vast(<< Mp4(VideoUrl) >>, <<>>),
   Vast(<< Mp4(VideoUrl) >>, <<" ", " ">>),
   Vast(<<>>, NoNode)}

\* Lines 170-176: the text, stripped, of the first MediaFile of type video/mp4
\* whose text is not empty; None when there is none.
RECURSIVE media_file_url(_)
media_file_url(media) ==
  IF media = <<>> THEN None
  ELSE IF Head(media).type = "video/mp4" /\ Head(media).text # <<>>
    THEN strip(Head(media).text)
  ELSE media_file_url(Tail(media))

\* Lines 182-183
raw_clickthrough_url(click) ==
  IF click # NoNode /\ click # <<>> THEN strip(click) ELSE None

\* `not x` of Python for a string or None
Falsy(x) == x = None \/ x = <<>>

\* The deployments the handler runs in: what lines 276-362 find on disk,
\* whether 'ffmpeg' is on the PATH, and whether the encoder found is a wrapper
\* that runs the real encoder as its child.  A binary is "exec" (executable),
\* "fixed" (made executable by chmod), "noexec" (chmod leaves it unexecutable)
\* or "absent".
Env(vercel, homebrew, bundled, alt, in_path, wrapper) ==
  [vercel |-> vercel, homebrew |-> homebrew, bundled |-> bundled, alt |-> alt,
   in_path |-> in_path, wrapper |-> wrapper]
Envs ==
  {Env(FALSE, TRUE, "absent", "absent", FALSE, FALSE),
   Env(TRUE, FALSE, "exec", "absent", FALSE, TRUE),
   Env(TRUE, FALSE, "absent", "fixed", FALSE, FALSE),
   Env(FALSE, FALSE, "noexec", "absent", TRUE, FALSE),
   Env(TRUE, FALSE, "absent", "noexec", FALSE, FALSE)}

\* Lines 272-367: the encoder path the command starts with.
ffmpeg_executable_path(e) ==
  IF e.homebrew /\ ~e.vercel THEN "/opt/homebrew/bin/ffmpeg"
  ELSE IF e.bundled \in {"exec", "fixed"} THEN "bundled"
  ELSE IF e.bundled = "absent" /\ e.vercel /\ e.alt \in {"exec", "fixed"} THEN "alt"
  ELSE "ffmpeg"

VARIABLES
  env,      \* the deployment
  vast,     \* vast[r]: the VAST request r submitted, read at line 134
  pc,       \* pc[r]: where the handler of request r stands
  resp,     \* resp[r]: the response returned, NoResp before
  final,    \* final[r]: final_resolved_url, while the handler of r plans
  gets,     \* gets[r]: redirect-resolution GETs issued for r
  qrSaves,  \* qrSaves[r]: times r saved the QR image
  out,      \* out[r]: the random token of output_filename, 0 before
  popens,   \* popens[r]: times r called subprocess.Popen
  cause,    \* cause[r]: the exception Popen raised, "" if none
  proc,     \* proc[r]: the encoder process of r
  child,    \* child[r]: a child process of the encoder of r is alive
  qrRead,   \* qrRead[r]: the writer of the QR image the encoder of r holds
  qrFile,   \* GENERATED_FOLDER/qrcode.png
  outFile,  \* outFile[t]: GENERATED_FOLDER/output_<brand>_<t>.mp4
  logFile   \* logFile[t]: GENERATED_FOLDER/output_<brand>_<t>.mp4.log

pvars == <<env, vast, pc, resp, final, gets, qrSaves, out, popens, cause, proc,
           child, qrRead, qrFile, outFile, logFile>>

\* The state of a call of get_final_destination on its own (see below).
VARIABLES
  g_url,     \* the clickthrough passed to get_final_destination
  g_u,       \* the URL whose percent-encoding is the value of click, or None
  g_pc,      \* "idle", "called", "extracted", "returned" or "raised"
  g_net,     \* what the network did
  g_inter,   \* what extract_click_url returned
  g_value    \* what get_final_destination returned

gvars == <<g_url, g_u, g_pc, g_net, g_inter, g_value>>

\* Steps of index() taken on their own for one request.
VARIABLES
  b_node,    \* the text of the AdTitle element, NoNode if there is none
  b_title,   \* ad_title
  b_brand,   \* brand_name
  b_pc,      \* "idle", "parsed", "titled" or "named"
  m_files,   \* the MediaFile elements, in document order
  m_url,     \* media_file_url
  m_pc,      \* "idle", "parsed", "selected" or "refused"
  d_url,     \* final_resolved_url
  d_text,    \* simplified_url_for_display
  d_pc       \* "idle", "resolved" or "drawn"

tvars == <<b_node, b_title, b_brand, b_pc, m_files, m_url, m_pc, d_url, d_text, d_pc>>
vars == <<pvars, gvars, tvars>>

NoResp == [cat |-> "", diag |-> 0]
\* diag is ffmpeg_stderr of the response: 0 when the response carries none, the
\* request whose encoder's output the log read back holds, or NoLog, the text
\* the handlers use when there is no log file.
NoLog == -1
Error(cat) == [cat |-> cat, diag |-> 0]
Failure(cat, diag) == [cat |-> cat, diag |-> diag]
NoFile == [writer |-> 0, content |-> <<>>]

PipelineInit ==
  /\ env \in Envs
  /\ vast = [r \in Requests |-> NoXml("none")]
  /\ pc = [r \in Requests |-> "start"]
  /\ resp = [r \in Requests |-> NoResp]
  /\ final = [r \in Requests |-> <<>>]
  /\ gets = [r \in Requests |-> 0]
  /\ qrSaves = [r \in Requests |-> 0]
  /\ out = [r \in Requests |-> 0]
  /\ popens = [r \in Requests |-> 0]
  /\ cause = [r \in Requests |-> ""]
  /\ proc = [r \in Requests |-> "none"]
  /\ child = [r \in Requests |-> FALSE]
  /\ qrRead = [r \in Requests |-> 0]
  /\ qrFile = NoFile
  /\ outFile = [t \in Tokens |-> "missing"]
  /\ logFile = [t \in Tokens |-> 0]

\* return render_template(...): the handler of r ends with response x.
Return(r, x) ==
  /\ resp' = [resp EXCEPT ![r] = x]
  /\ pc' = [pc EXCEPT ![r] = "done"]

\* Extract with the media test `is None` in place of `not media_file_url`.
Extract_MediaIsNone(r) ==
  /\ pc[r] = "start"
  /\ \E v \in Vasts :
       /\ vast' = [vast EXCEPT ![r] = v]
       /\ IF v.content = "fetch_error" THEN Return(r, Error("FetchError"))
          ELSE IF v.content = "none" THEN Return(r, Error("NoContent"))
          ELSE IF v.content = "bad_xml" THEN Return(r, Error("MalformedInput"))
          ELSE IF media_file_url(v.media) = None THEN Return(r, Error("NoSuitableMedia"))
          ELSE IF Falsy(raw_clickthrough_url(v.click))
            THEN Return(r, Error("MissingClickthrough"))
          ELSE pc' = [pc EXCEPT ![r] = "extracted"] /\ UNCHANGED resp
  /\ UNCHANGED <<gvars, tvars, env, final, gets, qrSaves, out, popens, cause, proc, child,
                 qrRead, qrFile, outFile, logFile>>

\* Lines 134-186 (and 452-453): obtain and parse the VAST, find the media
\* file and the clickthrough.
Extract(r) ==
  /\ pc[r] = "start"
  /\ \E v \in Vasts :
       /\ vast' = [vast EXCEPT ![r] = v]
       /\ IF v.content = "fetch_error" THEN Return(r, Error("FetchError"))
          ELSE IF v.content = "none" THEN Return(r, Error("NoContent"))
          ELSE IF v.content = "bad_xml" THEN Return(r, Error("MalformedInput"))
          ELSE IF Falsy(media_file_url(v.media)) THEN Return(r, Error("NoSuitableMedia"))
          ELSE IF Falsy(raw_clickthrough_url(v.click))
            THEN Return(r, Error("MissingClickthrough"))
          ELSE pc' = [pc EXCEPT ![r] = "extracted"] /\ UNCHANGED resp
  /\ UNCHANGED <<gvars, tvars, env, final, gets, qrSaves, out, popens, cause, proc, child,
                 qrRead, qrFile, outFile, logFile>>

\* Line 191 (and 454-457): resolve the clickthrough.
Resolve(r) ==
  /\ pc[r] = "extracted"
  /\ LET raw == raw_clickthrough_url(vast[r].click) IN
     \E net \in NetOutcomes(IF Falsy(extract_click_url(raw)) THEN raw
                            ELSE extract_click_url(raw)) :
       LET d == get_final_destination(raw, net) IN
         /\ gets' = [gets EXCEPT ![r] = @ + d.gets]
         /\ IF d.raised
              THEN Return(r, Error("Unexpected")) /\ UNCHANGED final
              ELSE /\ final' = [final EXCEPT ![r] = d.value]
                   /\ pc' = [pc EXCEPT ![r] = "resolved"]
                   /\ UNCHANGED resp
  /\ UNCHANGED <<gvars, tvars, env, vast, qrSaves, out, popens, cause, proc, child, qrRead,
                 qrFile, outFile, logFile>>

\* SaveQR with the resolved URL given to qrcode.make.
SaveQR_Resolved(r) ==
  /\ pc[r] = "resolved"
  /\ qrFile' = [writer |-> r, content |-> final[r]]
  /\ qrSaves' = [qrSaves EXCEPT ![r] = @ + 1]
  /\ pc' = [pc EXCEPT ![r] = "qr_saved"]
  /\ UNCHANGED <<gvars, tvars, env, vast, resp, final, gets, out, popens, cause, proc, child,
                 qrRead, outFile, logFile>>

\* Lines 195-198: the QR image of the raw clickthrough, saved as qrcode.png.
SaveQR(r) ==
  /\ pc[r] = "resolved"
  /\ qrFile' = [writer |-> r, content |-> raw_clickthrough_url(vast[r].click)]
  /\ qrSaves' = [qrSaves EXCEPT ![r] = @ + 1]
  /\ pc' = [pc EXCEPT ![r] = "qr_saved"]
  /\ UNCHANGED <<gvars, tvars, env, vast, resp, final, gets, out, popens, cause, proc, child,
                 qrRead, outFile, logFile>>

\* Lines 200-381: name the output after os.urandom(4), write the filter
\* script with the display text of final_resolved_url, find the encoder, build
\* the command.  After these lines final_resolved_url is read only to fill the
\* page of a success (line 446), and the model lets go of it.
Plan(r) ==
  /\ pc[r] = "qr_saved"
  /\ \E t \in {r} \cup {out[q] : q \in {q \in Requests : out[q] # 0}} :
       out' = [out EXCEPT ![r] = t]
  /\ final' = [final EXCEPT ![r] = <<>>]
  /\ pc' = [pc EXCEPT ![r] = "planned"]
  /\ UNCHANGED <<gvars, tvars, env, vast, resp, gets, qrSaves, popens, cause, proc,
                 child, qrRead, qrFile, outFile, logFile>>

\* Lines 428-432 and 419-423: the log read back if the file exists, else the
\* fallback text.
ReadLogOrFallback(r) == IF logFile[out[r]] # 0 THEN logFile[out[r]] ELSE NoLog

\* The exceptions the try block of lines 384-413 can raise: Popen raises
\* FileNotFoundError or PermissionError when the encoder cannot be found or
\* executed and another OSError when the process cannot be created (fork
\* failure, argument list too long); communicate raises TimeoutExpired; writing
\* the log raises OSError.
RenderExceptions == {"FileNotFoundError", "PermissionError", "OSError", "TimeoutExpired"}

\* Lines 415 and 426: the except clause that catches exception e, named by the
\* message of its response.
HandlerCategory(e) == IF e = "TimeoutExpired" THEN "TimedOut" ELSE "ExecutionError"

\* Lines 383-386: the render step is entered.
EnterRender(r) ==
  /\ pc[r] = "planned"
  /\ pc' = [pc EXCEPT ![r] = "render"]
  /\ UNCHANGED <<gvars, tvars, env, vast, resp, final, gets, qrSaves, out, popens, cause,
                 proc, child, qrRead, qrFile, outFile, logFile>>

\* Line 387, the process starts, and with a wrapper its child.
PopenStarts(r) ==
  /\ pc[r] = "render"
  /\ ffmpeg_executable_path(env) = "ffmpeg" => env.in_path
  /\ popens' = [popens EXCEPT ![r] = @ + 1]
  /\ proc' = [proc EXCEPT ![r] = "running"]
  /\ child' = [child EXCEPT ![r] = env.wrapper]
  /\ pc' = [pc EXCEPT ![r] = "running"]
  /\ UNCHANGED <<gvars, tvars, env, vast, resp, final, gets, qrSaves, out, cause, qrRead,
                 qrFile, outFile, logFile>>

\* Line 387 and 426-433, Popen raises: FileNotFoundError when 'ffmpeg' is the
\* fallback and is not on the PATH, another OSError when the process cannot be
\* created.  The handler answers with the log if there is one.
PopenRaises(r) ==
  /\ pc[r] = "render"
  /\ popens' = [popens EXCEPT ![r] = @ + 1]
  /\ \E e \in {"FileNotFoundError", "OSError"} :
       /\ e = "FileNotFoundError" => (ffmpeg_executable_path(env) = "ffmpeg" /\ ~env.in_path)
       /\ cause' = [cause EXCEPT ![r] = e]
       /\ Return(r, Failure(HandlerCategory(e), ReadLogOrFallback(r)))
  /\ UNCHANGED <<gvars, tvars, env, vast, final, gets, qrSaves, out, proc, child, qrRead,
                 qrFile, outFile, logFile>>

-----------------------------------------------------------------------------
(* The encoder process, as the operating system runs it *)

\* The encoder reads input 1, GENERATED_FOLDER/qrcode.png (line 373), as the
\* file is when it opens it.
EncoderReadQR(r) ==
  /\ proc[r] = "running"
  /\ qrRead[r] = 0
  /\ qrRead' = [qrRead EXCEPT ![r] = qrFile.writer]
  /\ UNCHANGED <<gvars, tvars, env, vast, pc, resp, final, gets, qrSaves, out, popens, cause,
                 proc, child, qrFile, outFile, logFile>>

\* A child the encoder left behind ends on its own.
ChildExits(r) ==
  /\ child[r]
  /\ proc[r] \in {"killed", "dead"}
  /\ child' = [child EXCEPT ![r] = FALSE]
  /\ UNCHANGED <<gvars, tvars, env, vast, pc, resp, final, gets, qrSaves, out, popens, cause,
                 proc, qrRead, qrFile, outFile, logFile>>

\* The encoder exits with code 0 or 1, its child if any before it, having left
\* the output file (line 380, opened with -y) untouched, empty or with data;
\* what it held in memory goes.
EncoderExits(r) ==
  /\ proc[r] = "running"
  /\ \E code \in {"exit0", "exit1"} : proc' = [proc EXCEPT ![r] = code]
  /\ \E written \in {"untouched", "empty", "data"} :
       outFile' = IF written = "untouched" THEN outFile
                  ELSE [outFile EXCEPT ![out[r]] = written]
  /\ qrRead' = [qrRead EXCEPT ![r] = 0]
  /\ child' = [child EXCEPT ![r] = FALSE]
  /\ UNCHANGED <<gvars, tvars, env, vast, pc, resp, final, gets, qrSaves, out, popens, cause,
                 qrFile, logFile>>

\* SIGKILL, sent by process.kill(), ends the encoder, and the encoder alone.
KillDelivered(r) ==
  /\ proc[r] = "killed"
  /\ proc' = [proc EXCEPT ![r] = "dead"]
  /\ UNCHANGED <<gvars, tvars, env, vast, pc, resp, final, gets, qrSaves, out, popens, cause,
                 child, qrRead, qrFile, outFile, logFile>>

-----------------------------------------------------------------------------
(* The render step of index(), after Popen *)

\* Lines 388-413: communicate() returns, the log is written and read back into
\* ffmpeg_stderr_content (the output of r's encoder), and a non-zero return
\* code ends the request.
CommunicateReturns(r) ==
  /\ pc[r] = "running"
  /\ proc[r] \in {"exit0", "exit1"}
  /\ logFile' = [logFile EXCEPT ![out[r]] = r]
  /\ IF proc[r] # "exit0"
       THEN Return(r, Failure("EncodeFailed", r))
       ELSE pc' = [pc EXCEPT ![r] = "communicated"] /\ UNCHANGED resp
  /\ UNCHANGED <<gvars, tvars, env, vast, final, gets, qrSaves, out, popens, cause, proc,
                 child, qrRead, qrFile, outFile>>

\* CommunicateTimesOut with a second attempt in place of the response.
CommunicateTimesOut_Retry(r) ==
  /\ pc[r] = "running"
  /\ proc[r] = "running"
  /\ proc' = [proc EXCEPT ![r] = "killed"]
  /\ qrRead' = [qrRead EXCEPT ![r] = 0]
  /\ pc' = [pc EXCEPT ![r] = "render"]
  /\ UNCHANGED <<gvars, tvars, env, vast, resp, final, gets, qrSaves, out, popens, cause,
                 child, qrFile, outFile, logFile>>

\* Lines 388 and 415-425: communicate() raises TimeoutExpired while the
\* encoder runs; the handler sends SIGKILL and returns.  An encoder with
\* SIGKILL pending reads and writes no more, and what it held goes.
CommunicateTimesOut(r) ==
  /\ pc[r] = "running"
  /\ proc[r] = "running"
  /\ proc' = [proc EXCEPT ![r] = "killed"]
  /\ qrRead' = [qrRead EXCEPT ![r] = 0]
  /\ Return(r, Failure(HandlerCategory("TimeoutExpired"), ReadLogOrFallback(r)))
  /\ UNCHANGED <<gvars, tvars, env, vast, final, gets, qrSaves, out, popens, cause, child,
                 qrFile, outFile, logFile>>

\* CheckOutput without the test of the size of the output file.
CheckOutput_NoSizeTest(r) ==
  /\ pc[r] = "communicated"
  /\ IF outFile[out[r]] = "missing"
       THEN Return(r, Failure("OutputMissing", r))
       ELSE Return(r, [cat |-> "Success", diag |-> 0])
  /\ UNCHANGED <<gvars, tvars, env, vast, final, gets, qrSaves, out, popens, cause, proc,
                 child, qrRead, qrFile, outFile, logFile>>

\* Lines 435-450: the output file decides between failure, with
\* ffmpeg_stderr_content, and success.
CheckOutput(r) ==
  /\ pc[r] = "communicated"
  /\ IF outFile[out[r]] \in {"missing", "empty"}
       THEN Return(r, Failure("OutputMissing", r))
       ELSE Return(r, [cat |-> "Success", diag |-> 0])
  /\ UNCHANGED <<gvars, tvars, env, vast, final, gets, qrSaves, out, popens, cause, proc,
                 child, qrRead, qrFile, outFile, logFile>>

-----------------------------------------------------------------------------
(* The resolver on its own, over the URLs of a bounded alphabet *)


NoNet == [kind |-> "none", url |-> <<>>]

ResolverIdle ==
  /\ g_url = <<>> /\ g_u = None /\ g_pc = "idle" /\ g_net = NoNet
  /\ g_inter = None /\ g_value = None

\* The characters of the embedded URLs.
UChars == {"x", "/", "%", "2", "5"}
Tails == UNION {[1..n -> UChars] : n \in 0..MaxTail}
EmbeddedUrls == Tails \cup {<<"http://">> \o t : t \in Tails}

\* The raw clickthroughs: a tracker URL or a string without scheme, with no
\* query, or with one parameter whose value is an embedded URL, as it is or
\* percent-encoded.
Bases == {<<"http://", "t">>, <<"t">>}
ParamKeys == {"click", "u", "finalUrl", "q"}
ResolverInputs ==
  {[url |-> b, u |-> None] : b \in Bases}
  \cup {[url |-> b \o <<"?", k, "=">> \o quote(u),
         u |-> IF k = "click" THEN u ELSE None] :
          b \in Bases, k \in ParamKeys, u \in EmbeddedUrls}
  \cup {[url |-> b \o <<"?", k, "=">> \o u, u |-> None] :
          b \in Bases, k \in ParamKeys, u \in EmbeddedUrls}

ResolverInit ==
  /\ \E i \in ResolverInputs : g_url = i.url /\ g_u = i.u
  /\ g_pc = "called" /\ g_net = NoNet /\ g_inter = None /\ g_value = None

\* Line 109
GfdExtracts ==
  /\ g_pc = "called"
  /\ g_inter' = extract_click_url(g_url)
  /\ g_pc' = "extracted"
  /\ UNCHANGED <<pvars, tvars, g_url, g_u, g_net, g_value>>

\* Lines 111-129
GfdResolves ==
  /\ g_pc = "extracted"
  /\ \E net \in NetOutcomes(IF Falsy(g_inter) THEN g_url ELSE g_inter) :
       LET d == get_final_destination(g_url, net) IN
         /\ g_net' = (IF d.gets = 0 THEN NoNet ELSE net)
         /\ g_value' = d.value
         /\ g_pc' = IF d.raised THEN "raised" ELSE "returned"
  /\ UNCHANGED <<pvars, tvars, g_url, g_u, g_inter>>

-----------------------------------------------------------------------------
(* extract_click_url on its own, over queries of several parameters *)

\* Most parameters of a query.
MaxParams == 3

\* The parameters: a name alone, or a name, '=' and a value that is empty,
\* plain, percent-encoded once or percent-encoded twice.
QueryKeys == {"click", "u", "url", "finalUrl", "q"}
QueryValues == {<<>>, <<"x">>, <<"y">>, <<"%", "2", "F">>, <<"%", "2", "5", "2", "F">>}
QueryFields ==
  {<<k>> : k \in QueryKeys} \cup {<<k, "=">> \o v : k \in QueryKeys, v \in QueryValues}

\* '&'.join(fields)
RECURSIVE JoinFields(_)
JoinFields(fields) ==
  IF Len(fields) = 1 THEN fields[1]
  ELSE fields[1] \o <<"&">> \o JoinFields(Tail(fields))

\* The raw clickthroughs with a query of 1 to n parameters.
QueryInputs(n) ==
  {<<"http://", "t", "?">> \o JoinFields(fs) :
     fs \in UNION {[1..k -> QueryFields] : k \in 1..n}}

QueryInit ==
  /\ g_url \in QueryInputs(MaxParams)
  /\ g_u = None /\ g_pc = "called" /\ g_net = NoNet /\ g_inter = None /\ g_value = None

-----------------------------------------------------------------------------
(* The display text of the URL, lines 216-224, on its own *)

\* Lengths of the runs the URLs of this part are padded with.
MinPad == 62
MaxPad == 72

\* Lines 221 and 222
MaxDisplayLen == 70
KeptLen == 67

\* A text of this part is [s |-> tokens, pad |-> n].  The token Run, of which
\* s holds at most one, is a run of pad >= 1 characters 'x'; pad is 0 when s
\* does not hold it.  Ellipsis is the three characters "...".  Cut is what is
\* left of an atom when a slice ends inside it.
Run == "x*"
Ellipsis == "..."
Cut == "cut"
Text(s, pad) == [s |-> s, pad |-> IF \E i \in 1..Len(s) : s[i] = Run THEN pad ELSE 0]

\* len() of a token
Width(t, pad) ==
  CASE t = Run -> pad
    [] t = "http://" -> 7
    [] t = "https://" -> 8
    [] t = "http%3A%2F%2F" -> 13
    [] t = Ellipsis -> 3
    [] t \in {"OMD", "omd"} -> 3
    [] t = "Untitled" -> 8
    [] t = "Ad" -> 2
    [] t = "Default" -> 7
    [] t = "Brand" -> 5
    [] OTHER -> 1

\* len()
RECURSIVE TokensLen(_, _)
TokensLen(s, pad) ==
  IF s = <<>> THEN 0 ELSE Width(s[1], pad) + TokensLen(Tail(s), pad)

StrLen(t) == TokensLen(t.s, t.pad)

\* t[:k].  A run the slice ends in is a shorter run.
RECURSIVE SliceTokens(_, _, _)
SliceTokens(s, pad, k) ==
  IF s = <<>> \/ k <= 0 THEN <<>>
  ELSE IF Width(s[1], pad) <= k
    THEN <<s[1]>> \o SliceTokens(Tail(s), pad, k - Width(s[1], pad))
  ELSE IF s[1] = Run THEN <<Run>>
  ELSE <<Cut>>

RECURSIVE SlicePad(_, _, _)
SlicePad(s, pad, k) ==
  IF s = <<>> \/ k <= 0 THEN 0
  ELSE IF s[1] = Run THEN (IF pad <= k THEN pad ELSE k)
  ELSE IF Width(s[1], pad) <= k THEN SlicePad(Tail(s), pad, k - Width(s[1], pad))
  ELSE 0

Slice(t, k) == Text(SliceTokens(t.s, t.pad, k), SlicePad(t.s, t.pad, k))

\* str.replace(old, ''), for an old that is an atom
Remove(s, old) == SelectSeq(s, LAMBDA c : c # old)

\* Lines 216-224: simplified_url_for_display for final_resolved_url (which
\* get_final_destination returns non-empty) and raw_clickthrough_url.
simplified_url_for_display(final_resolved_url, raw_url) ==
  LET url_for_display_text ==
        IF final_resolved_url.s # <<>> THEN final_resolved_url ELSE raw_url
      decoded_for_video_display ==
        Text(unquote(url_for_display_text.s), url_for_display_text.pad)
      text_to_draw_for_url ==
        Text(Remove(Remove(decoded_for_video_display.s, "https://"), "http://"),
             decoded_for_video_display.pad)
  IN IF StrLen(text_to_draw_for_url) > MaxDisplayLen
       THEN LET kept == Slice(text_to_draw_for_url, KeptLen)
            IN Text(kept.s \o <<Ellipsis>>, kept.pad)
       ELSE text_to_draw_for_url

\* The resolved URLs: a scheme or none, a run or none, and a tail of up to n
\* tokens.
DisplayChars == {"/", "%", "2", "F", "http://"}
DisplayTails(n) == UNION {[1..k -> DisplayChars] : k \in 0..n}
DisplayUrls(n) ==
  {Text(sch \o run \o tail, pad) :
     sch \in {<<>>, <<"http://">>, <<"https://">>},
     run \in {<<>>, <<Run>>}, pad \in MinPad..MaxPad, tail \in DisplayTails(n)}
  \ {Text(<<>>, 0)}

NoText == Text(<<>>, 0)

DisplayIdle == d_url = NoText /\ d_text = NoText /\ d_pc = "idle"

DisplayInit == d_url \in DisplayUrls(MaxTail) /\ d_text = NoText /\ d_pc = "resolved"

\* Lines 216-224
DrawUrlText ==
  /\ d_pc = "resolved"
  /\ d_text' = simplified_url_for_display(d_url, Text(RawClick, 0))
  /\ d_pc' = "drawn"
  /\ UNCHANGED <<pvars, gvars, b_node, b_title, b_brand, b_pc, m_files, m_url, m_pc, d_url>>

-----------------------------------------------------------------------------
(* The brand name, lines 29-60 and 164-167, on its own *)

\* Longest AdTitle text, in tokens.
MaxTitle == 5

\* The characters of the titles; "OMD" and "omd" are runs of three letters.
TitleChars == {"_", "(", " ", "a", "B", "OMD", "omd"}
\* The AdTitle texts of up to n tokens.
Titles(n) == UNION {[1..k -> TitleChars] : k \in 0..n}

UntitledAd == <<"Untitled", " ", "Ad">>
DefaultBrand == <<"Default", " ", "Brand">>

\* Line 165: ad_title for the text of the AdTitle element.
ad_title_of(node) == IF node # NoNode /\ node # <<>> THEN strip(node) ELSE UntitledAd

\* str.isupper() of the first character of a token
IsUpper(t) == t \in {"B", "OMD", "Untitled", "Ad", "Default", "Brand"}

\* The length of the run of tokens other than '_' that starts at i.
RECURSIVE RunLength(_, _)
RunLength(s, i) ==
  IF i > Len(s) \/ s[i] = "_" THEN 0 ELSE 1 + RunLength(s, i + 1)

\* Line 38: re.search(r"_OMD_([^_]+)_", ad_title, re.IGNORECASE) from index i
\* on: group(1) of the leftmost match, None when there is no match.
RECURSIVE match_omd(_, _)
match_omd(s, i) ==
  IF i + 4 > Len(s) THEN None
  ELSE LET n == RunLength(s, i + 3)
       IN IF s[i] = "_" /\ s[i + 1] \in {"OMD", "omd"} /\ s[i + 2] = "_"
             /\ n >= 1 /\ i + 3 + n <= Len(s)
            THEN SubSeq(s, i + 3, i + 2 + n)
            ELSE match_omd(s, i + 1)

\* Line 55: the parts of length above 3 that start with a capital.
RECURSIVE potential_brands(_)
potential_brands(parts) ==
  IF parts = <<>> THEN <<>>
  ELSE (IF TokensLen(Head(parts), 0) > 3 /\ IsUpper(Head(parts)[1])
          THEN <<Head(parts)>> ELSE <<>>) \o potential_brands(Tail(parts))

\* Lines 29-60
extract_brand_name(ad_title) ==
  IF ad_title = <<>> THEN DefaultBrand
  ELSE IF match_omd(ad_title, 1) # None THEN match_omd(ad_title, 1)
  ELSE LET parts == split(ad_title, "_")
       IN IF Len(parts) > 1 /\ TokensLen(parts[2], 0) > 2 THEN parts[2]
          ELSE IF potential_brands(parts) # <<>> THEN potential_brands(parts)[1]
          ELSE strip(split(ad_title, "(")[1])

BrandIdle == b_node = NoNode /\ b_title = <<>> /\ b_brand = <<>> /\ b_pc = "idle"

BrandInit ==
  /\ b_node \in Titles(MaxTitle) \cup {NoNode}
  /\ b_title = <<>> /\ b_brand = <<>> /\ b_pc = "parsed"

\* Lines 164-165
ReadAdTitle ==
  /\ b_pc = "parsed"
  /\ b_title' = ad_title_of(b_node)
  /\ b_pc' = "titled"
  /\ UNCHANGED <<pvars, gvars, b_node, b_brand, m_files, m_url, m_pc, d_url, d_text, d_pc>>

\* Line 167
NameBrand ==
  /\ b_pc = "titled"
  /\ b_brand' = extract_brand_name(b_title)
  /\ b_pc' = "named"
  /\ UNCHANGED <<pvars, gvars, b_node, b_title, m_files, m_url, m_pc, d_url, d_text, d_pc>>

-----------------------------------------------------------------------------
(* The choice of the media file, lines 169-179, on its own *)

\* Most MediaFile elements of a VAST.
MaxMedia == 3

OtherVideoUrl == <<"http://", "w">>
MediaFiles ==
  {Mp4(<<>>), Mp4(<<" ">>), Mp4(VideoUrl), Mp4(OtherVideoUrl), Flv(VideoUrl)}
\* The lists of up to n MediaFile elements.
MediaLists(n) == UNION {[1..k -> MediaFiles] : k \in 0..n}

MediaIdle == m_files = <<>> /\ m_url = None /\ m_pc = "idle"

MediaInit == m_files \in MediaLists(MaxMedia) /\ m_url = None /\ m_pc = "parsed"

\* Lines 169-179
SelectMedia ==
  /\ m_pc = "parsed"
  /\ m_url' = media_file_url(m_files)
  /\ m_pc' = IF Falsy(media_file_url(m_files)) THEN "refused" ELSE "selected"
  /\ UNCHANGED <<pvars, gvars, b_node, b_title, b_brand, b_pc, m_files, d_url, d_text, d_pc>>

-----------------------------------------------------------------------------
(* Specifications *)

PipelineIdle ==
  /\ env = CHOOSE e \in Envs : TRUE
  /\ vast = [r \in Requests |-> NoXml("none")]
  /\ pc = [r \in Requests |-> "done"]
  /\ resp = [r \in Requests |-> Error("NoContent")]
  /\ final = [r \in Requests |-> <<>>]
  /\ gets = [r \in Requests |-> 0]
  /\ qrSaves = [r \in Requests |-> 0]
  /\ out = [r \in Requests |-> 0]
  /\ popens = [r \in Requests |-> 0]
  /\ cause = [r \in Requests |-> ""]
  /\ proc = [r \in Requests |-> "none"]
  /\ child = [r \in Requests |-> FALSE]
  /\ qrRead = [r \in Requests |-> 0]
  /\ qrFile = NoFile
  /\ outFile = [t \in Tokens |-> "missing"]
  /\ logFile = [t \in Tokens |-> 0]

Init == PipelineInit /\ ResolverIdle /\ BrandIdle /\ MediaIdle /\ DisplayIdle

Next ==
  \E r \in Requests :
       \/ Extract(r) \/ Resolve(r) \/ SaveQR(r) \/ Plan(r)
       \/ EnterRender(r) \/ PopenStarts(r) \/ PopenRaises(r)
       \/ EncoderReadQR(r) \/ ChildExits(r)
       \/ EncoderExits(r) \/ KillDelivered(r)
       \/ CommunicateReturns(r) \/ CommunicateTimesOut(r) \/ CheckOutput(r)

Spec == Init /\ [][Next]_vars

ResolverNext == GfdExtracts \/ GfdResolves

InitResolver == PipelineIdle /\ ResolverInit /\ BrandIdle /\ MediaIdle /\ DisplayIdle

SpecResolver == InitResolver /\ [][ResolverNext]_vars

InitQuery == PipelineIdle /\ QueryInit /\ BrandIdle /\ MediaIdle /\ DisplayIdle

SpecQuery == InitQuery /\ [][GfdExtracts]_vars

BrandNext == ReadAdTitle \/ NameBrand

InitBrand == PipelineIdle /\ ResolverIdle /\ BrandInit /\ MediaIdle /\ DisplayIdle

SpecBrand == InitBrand /\ [][BrandNext]_vars

InitMedia == PipelineIdle /\ ResolverIdle /\ BrandIdle /\ MediaInit /\ DisplayIdle

SpecMedia == InitMedia /\ [][SelectMedia]_vars

InitDisplay == PipelineIdle /\ ResolverIdle /\ BrandIdle /\ MediaIdle /\ DisplayInit

SpecDisplay == InitDisplay /\ [][DrawUrlText]_vars

-----------------------------------------------------------------------------
(* Properties of the request handler, under Spec *)

\* The files of GENERATED_FOLDER request r writes, or has its encoder write.
FilesWritten(r) ==
  (IF qrSaves[r] > 0 THEN {<<"qrcode.png", 0>>} ELSE {})
  \cup (IF out[r] # 0
          THEN {<<"output.mp4", out[r]>>, <<"output.mp4.log", out[r]>>} ELSE {})

InFlight(r) == pc[r] \notin {"start", "done"}

\* C1: two requests in flight write no file of the same name, and no encoder
\* holds a QR image another request wrote.
C1_NoSharedFile ==
  /\ \A r, q \in Requests :
       (r # q /\ InFlight(r) /\ InFlight(q)) => FilesWritten(r) \cap FilesWritten(q) = {}
  /\ \A r \in Requests : qrRead[r] \in {0, r}

\* The request gets its response in this step.
Responds(r) == resp[r] = NoResp /\ resp'[r] # NoResp

RenderOutcomes == {"Success", "EncodeFailed", "OutputMissing", "TimedOut", "ExecutionError"}

\* C3: whatever the outcome of the render step, the log file of the request
\* holds the output of its encoder.
C3_LogAlwaysWritten ==
  \A r \in Requests : resp[r].cat \in RenderOutcomes => logFile[out[r]] = r

\* C4: when the timed-out response is returned, the encoder and its child
\* have ended.
C4_NoProcessOutlivesTimeout ==
  \A r \in Requests :
    resp[r].cat = "TimedOut" => (proc[r] = "dead" /\ ~child[r])

\* C5: the response to an encoder that cannot be found is of a category that
\* is not the category of an encode that ran and failed, nor the category the
\* handlers give any other exception of the render step.
C5_EngineUnavailableDistinct ==
  \A r \in Requests :
    cause[r] = "FileNotFoundError" =>
      /\ resp[r].cat \notin {"EncodeFailed", "OutputMissing"}
      /\ \A e \in RenderExceptions \ {"FileNotFoundError", "PermissionError"} :
           HandlerCategory(e) # resp[r].cat

\* The state of the render job of request r.
JobState(r) ==
  CASE pc[r] = "planned" -> "Planned"
    [] pc[r] \in {"render", "running", "communicated"} -> "Running"
    [] pc[r] = "done" /\ resp[r].cat = "Success" -> "Succeeded"
    [] pc[r] = "done" /\ resp[r].cat \in {"EncodeFailed", "OutputMissing"} -> "Failed"
    [] pc[r] = "done" /\ resp[r].cat = "TimedOut" -> "TimedOut"
    [] pc[r] = "done" /\ resp[r].cat = "ExecutionError" -> "EngineUnavailable"
    [] OTHER -> "NoJob"

TerminalStates == {"Succeeded", "Failed", "TimedOut", "EngineUnavailable"}

JobSteps ==
  {<<"NoJob", "Planned">>, <<"Planned", "Running">>}
  \cup {<<"Running", t>> : t \in TerminalStates}

\* C6: a render job goes from Planned to Running to one terminal state and
\* stays there, and the encoder is started at most once for a request.
C6_JobStateMachine ==
  [][\A r \in Requests :
       /\ JobState(r)' # JobState(r) => <<JobState(r), JobState(r)'>> \in JobSteps
       /\ JobState(r) \in TerminalStates => (resp'[r] = resp[r] /\ popens'[r] = popens[r])
       /\ popens'[r] <= 1]_vars

\* Witness of C6: a job has timed out and a job has succeeded, each after one
\* start of the encoder.
C6_Witness ==
  \E r, q \in Requests :
    /\ JobState(r) = "TimedOut" /\ popens[r] = 1
    /\ JobState(q) = "Succeeded" /\ popens[q] = 1

\* A MediaFile of type video/mp4 whose text is a URL.
HasSuitableMedia(v) ==
  \E i \in 1..Len(v.media) :
    v.media[i].type = "video/mp4" /\ strip(v.media[i].text) # <<>>

HasClickThrough(v) == v.click # NoNode /\ strip(v.click) # <<>>

\* C7: for a VAST without suitable media or without clickthrough no
\* redirect-resolution request is issued, no QR image written and no encoder
\* started, and the response is the error of what is missing.
C7_HaltsBeforeLaterSteps ==
  \A r \in Requests :
    (vast[r].content = "xml" /\ ~(HasSuitableMedia(vast[r]) /\ HasClickThrough(vast[r]))) =>
      /\ gets[r] = 0 /\ qrSaves[r] = 0 /\ popens[r] = 0 /\ proc[r] = "none"
      /\ out[r] = 0 /\ pc[r] \in {"start", "done"}
      /\ pc[r] = "done" =>
           resp[r].cat \in (IF HasSuitableMedia(vast[r]) THEN {} ELSE {"NoSuitableMedia"})
                           \cup (IF HasClickThrough(vast[r]) THEN {}
                                 ELSE {"MissingClickthrough"})

\* Witness of C7: one request was refused for its media and one for its
\* clickthrough, a text of spaces.
C7_Witness ==
  \E r, q \in Requests :
    /\ resp[r].cat = "NoSuitableMedia" /\ vast[r].media # <<>>
    /\ resp[q].cat = "MissingClickthrough" /\ vast[q].click = <<" ", " ">>

-----------------------------------------------------------------------------
(* Properties of the resolver, under SpecResolver *)

\* C8: get_final_destination does not raise, and returns the URL the network
\* ended at if the request succeeded, else the intermediate URL if there is
\* one, else the raw URL.
C8_NeverRaises ==
  /\ g_pc # "raised"
  /\ g_pc = "returned" =>
       g_value = IF g_net.kind = "ok" THEN g_net.url
                 ELSE IF ~Falsy(g_inter) THEN g_inter
                 ELSE g_url

\* C9: when the value of click is the percent-encoding of the URL u,
\* extract_click_url returns u.
C9_ClickRoundTrip ==
  (g_pc # "called" /\ g_u # None /\ IsHttp(g_u)) => g_inter = g_u

\* The names of the parameters of the query of url, as written.
RECURSIVE FieldNames(_)
FieldNames(fields) ==
  IF fields = <<>> THEN {}
  ELSE LET f == Head(fields)
           e == IndexOf(f, "=", 1)
       IN {IF e = 0 THEN f ELSE SubSeq(f, 1, e - 1)} \cup FieldNames(Tail(fields))

Recognized == {<<"click">>, <<"u">>, <<"url">>, <<"redirect_url">>,
               <<"destination_url">>, <<"finalUrl">>}

NoRecognizedParameter(url) ==
  FieldNames(split(urlparse_query(url), "&")) \cap Recognized = {}

\* C10: for a raw URL without recognized parameter, get_final_destination
\* returns the URL of the final response when the request succeeds with a URL
\* other than the raw one, and the raw URL when it fails or yields the same.
C10_FallbackOnRaw ==
  (NoRecognizedParameter(g_url) /\ g_pc \in {"returned", "raised"}) =>
    /\ g_pc = "returned"
    /\ g_value = IF g_net.kind = "ok" /\ g_net.url # g_url THEN g_net.url ELSE g_url

-----------------------------------------------------------------------------
(* Properties of the display text, under SpecDisplay *)

\* The URL without the scheme it starts with.
SchemeStripped(url) ==
  IF url.s # <<>> /\ url.s[1] \in {"http://", "https://"}
    THEN Text(Tail(url.s), url.pad) ELSE url

\* C12: the display text is at most 70 characters long; it is the first 67
\* characters of the scheme-stripped URL followed by "...", 70 characters in
\* all, when the scheme-stripped URL is longer than 70 characters, and the
\* scheme-stripped URL itself otherwise.
C12_DisplayTextTruncated ==
  d_pc = "drawn" =>
    LET form == SchemeStripped(d_url)
        kept == Slice(form, KeptLen)
    IN /\ StrLen(d_text) <= MaxDisplayLen
       /\ StrLen(form) > MaxDisplayLen =>
            (d_text = Text(kept.s \o <<Ellipsis>>, kept.pad)
             /\ StrLen(d_text) = MaxDisplayLen)
       /\ StrLen(form) <= MaxDisplayLen => d_text = form

-----------------------------------------------------------------------------
(* Properties of the brand name, under SpecBrand *)

\* C13: the brand name of every title the handler passes to
\* extract_brand_name is not empty and no longer than the title.
C13_BrandNameBounded ==
  b_pc = "named" =>
    (b_brand # <<>> /\ TokensLen(b_brand, 0) <= TokensLen(b_title, 0))

-----------------------------------------------------------------------------
(* Properties of the choice of the media file, under SpecMedia *)

\* The MediaFile elements of type video/mp4 whose text is a URL.
ValidMedia(files) ==
  {i \in 1..Len(files) :
     files[i].type = "video/mp4" /\ strip(files[i].text) # <<>>}

\* C14: the media URL selected is the text of the first MediaFile of type
\* video/mp4 with a text that is not empty or blank, and the request is
\* refused for its media only when there is no such MediaFile.
C14_FirstValidMp4 ==
  m_pc \in {"selected", "refused"} =>
    IF ValidMedia(m_files) # {}
      THEN LET first == CHOOSE i \in ValidMedia(m_files) :
                          \A j \in ValidMedia(m_files) : i <= j
           IN m_pc = "selected" /\ m_url = strip(m_files[first].text)
      ELSE m_pc = "refused"

-----------------------------------------------------------------------------
(* Properties of extract_click_url, under SpecQuery *)

\* The value, percent-decoded once, of the first field named key in the query
\* as written; None when no field has that name.
RECURSIVE ValueAsWritten(_, _)
ValueAsWritten(fields, key) ==
  IF fields = <<>> THEN None
  ELSE LET f == Head(fields)
           e == IndexOf(f, "=", 1)
           name == IF e = 0 THEN f ELSE SubSeq(f, 1, e - 1)
           value == IF e = 0 THEN <<>> ELSE SubSeq(f, e + 1, Len(f))
       IN IF name = key THEN unquote(PlusToSpace(value))
          ELSE ValueAsWritten(Tail(fields), key)

PriorityKeys == << <<"click">> >> \o DestKeys

\* The decoded value of the first key of PriorityKeys, from i on, that the
\* query holds; None when it holds none of them.
RECURSIVE FirstByPriority(_, _)
FirstByPriority(fields, i) ==
  IF i > Len(PriorityKeys) THEN None
  ELSE IF ValueAsWritten(fields, PriorityKeys[i]) # None
    THEN ValueAsWritten(fields, PriorityKeys[i])
  ELSE FirstByPriority(fields, i + 1)

\* C15: whatever the order of the parameters, extract_click_url returns the
\* decoded value of click if the query has a click parameter, else that of
\* the first of u, url, redirect_url, destination_url, finalUrl the query has,
\* and no intermediate only when the query has none of the six.  An empty
\* value returned as None counts as returned.
C15_PriorityByKey ==
  g_pc = "extracted" =>
    LET expected == FirstByPriority(split(urlparse_query(g_url), "&"), 1)
    IN IF expected = <<>> THEN Falsy(g_inter) ELSE g_inter = expected

====
